---- MODULE Spec2Model ----
(***************************************************************************)
(* Model of visualizer_script.py: parse_input (TSV records -> node list    *)
(* and adjacency map), find_articulation_points (recursive low-link DFS),  *)
(* build_html and main.                                                    *)
(*                                                                         *)
(* Two specifications:                                                     *)
(*   Spec       - main(): parse_input, find_articulation_points,           *)
(*                build_html, over every bounded input file.               *)
(*   FinderSpec - find_articulation_points called (twice in a row) on      *)
(*                every bounded adjacency map, symmetric or not.           *)
(* The iteration order of Python sets and of the dict handed to the finder *)
(* is left open: each loop picks any element not yet iterated.             *)
(***************************************************************************)
EXTENDS Integers, Sequences, FiniteSets, TLC

\* ------------------------------------------------------------------ bounds
\* Largest number of records in the input file.
MaxRows == 3
\* Largest node identifier of an adjacency map handed directly to the finder.
MaxNode == 3

\* range(1, 6): connectionID1 .. connectionID5
NumConn == 5

VARIABLES
    pc,          \* position in main / parse_input / find_articulation_points
    exc,         \* name of the exception that ended the run, "" if none
    nodes,       \* parse_input: list of record ids (descriptive fields are carried unchanged)
    adj,         \* the adjacency map: id -> set of neighbour ids
    curNode,     \* parse_input: node_id of the row being read
    fieldIdx,    \* parse_input: i of the loop over connectionID{i}
    parsed,      \* main: parse_input has returned (nodes, adj)
    lastIn,      \* the input field value consumed by the last parse step
    lastKind,    \* which kind of parse step came last
    refs,        \* input read so far: <<record id, neighbour id>> per parseable non-self field
    badId,       \* input read so far: a row with an unparseable primary id was read
    time,        \* find_articulation_points: discovery counter
    visited,
    disc,
    low,
    parent,
    articulation,
    stack,       \* active dfs() activations, innermost last
    pending,     \* keys of "for u in adj" not yet iterated
    run,         \* which call of the finder this is (FinderSpec calls it twice)
    prevResult,  \* the set the previous call returned
    prevFirst,   \* the keys the previous call discovered first (disc = 0)
    adj0,        \* the adjacency map as it was when the finder was called
    html         \* build_html: the written file, or NoFile

vars == <<pc, exc, nodes, adj, curNode, fieldIdx, parsed, lastIn, lastKind, refs, badId,
          time, visited, disc, low, parent, articulation, stack, pending, run,
          prevResult, prevFirst, adj0, html>>

parseVars == <<nodes, curNode, fieldIdx, parsed, lastIn, lastKind, refs, badId>>
finderLocals == <<time, visited, disc, low, parent, articulation, stack>>

\* ------------------------------------------------------------- dictionaries
EmptyMap == [x \in {} |-> 0]

\* d[k] = v
Put(d, k, v) == [x \in DOMAIN d \cup {k} |-> IF x = k THEN v ELSE d[x]]

\* Variant: adj[k] = set(), which empties an entry that exists.
SetDefault_Reset(d, k) == Put(d, k, {})

\* d.setdefault(k, set()): the map afterwards
SetDefault(d, k) == IF k \in DOMAIN d THEN d ELSE Put(d, k, {})

Min(a, b) == IF a <= b THEN a ELSE b

\* ------------------------------------------------------------ input fields
\* A field of a csv.DictReader row: the column is missing from the header
\* ("absent"), the row is too short and the reader filled in None ("none"),
\* or a string, kept as its characters.
Digits == <<"0", "1", "2", "3", "4", "5", "6", "7", "8", "9">>
IsDigit(c) == \E i \in 1..Len(Digits) : Digits[i] = c
DigitVal(c) == (CHOOSE i \in 1..Len(Digits) : Digits[i] = c) - 1
IsSpace(c) == c \in {" ", "\t"}

Str(chars) == [kind |-> "str", chars |-> chars]
AbsentField == [kind |-> "absent", chars |-> <<>>]
NoneField == [kind |-> "none", chars |-> <<>>]

\* The field values the input file is written with: three identifiers in plain
\* form, one padded, one with a leading zero, and every kind of unusable field.
FieldValues ==
    { Str(<<"1">>), Str(<<"2">>), Str(<<"3">>), Str(<<" ", "2">>), Str(<<"0", "1">>), Str(<<>>), Str(<<" ">>), Str(<<"x">>),
      Str(<<"1", "x">>), AbsentField, NoneField }

RECURSIVE LStrip(_)
LStrip(s) == IF s # <<>> /\ IsSpace(Head(s)) THEN LStrip(Tail(s)) ELSE s
RECURSIVE RStrip(_)
RStrip(s) == IF s # <<>> /\ IsSpace(s[Len(s)]) THEN RStrip(SubSeq(s, 1, Len(s) - 1)) ELSE s
\* str.strip()
Strip(s) == RStrip(LStrip(s))

RECURSIVE DecimalValue(_)
DecimalValue(s) ==
    IF s = <<>> THEN 0
    ELSE 10 * DecimalValue(SubSeq(s, 1, Len(s) - 1)) + DigitVal(s[Len(s)])

\* int(x): surrounding whitespace is ignored, the rest must be decimal digits.
IntOf(f) ==
    IF f.kind = "none" THEN [ok |-> FALSE, exc |-> "TypeError", val |-> 0]
    ELSE LET s == Strip(f.chars) IN
         IF s # <<>> /\ \A i \in 1..Len(s) : IsDigit(s[i])
         THEN [ok |-> TRUE, exc |-> "", val |-> DecimalValue(s)]
         ELSE [ok |-> FALSE, exc |-> "ValueError", val |-> 0]

\* int(row['id'])
PrimaryId(f) ==
    IF f.kind = "absent" THEN [ok |-> FALSE, exc |-> "KeyError", val |-> 0]
    ELSE IntOf(f)

\* Variant: only "key in row" is tested.
FieldPresent_KeyOnly(f) == f.kind # "absent"

\* key in row and row[key] and row[key].strip()
FieldPresent(f) == f.kind = "str" /\ f.chars # <<>> /\ Strip(f.chars) # <<>>

\* ------------------------------------------------------------- parse_input
NoFile == [written |-> FALSE, critical |-> {}, shown |-> {}, edges |-> {}]

\* Variant: "if v in adj: adj[v].add(u)", no entry is created for an unknown v.
RECURSIVE SymInner_KnownOnly(_, _, _)
SymInner_KnownOnly(a, u, todo) ==
    IF todo = {} THEN a
    ELSE LET v == CHOOSE x \in todo : TRUE
         IN SymInner_KnownOnly(IF v \in DOMAIN a THEN Put(a, v, a[v] \cup {u}) ELSE a,
                               u, todo \ {v})

\* The symmetrization loop, one snapshot entry (u, neighbors) after another.
RECURSIVE SymInner(_, _, _)
SymInner(a, u, todo) ==
    IF todo = {} THEN a
    ELSE LET v == CHOOSE x \in todo : TRUE
             b == SetDefault(a, v)
         IN SymInner(Put(b, v, b[v] \cup {u}), u, todo \ {v})

RECURSIVE SymOuter(_, _)
SymOuter(a, keys) ==
    IF keys = {} THEN a
    ELSE LET u == CHOOSE x \in keys : TRUE
         IN SymOuter(SymInner(a, u, a[u]), keys \ {u})

Symmetrize(a) == SymOuter(a, DOMAIN a)

InitCommon ==
    /\ exc = ""
    /\ nodes = <<>>
    /\ curNode = 0
    /\ fieldIdx = 0
    /\ lastIn = AbsentField
    /\ lastKind = "none"
    /\ refs = {}
    /\ badId = FALSE
    /\ time = 0
    /\ visited = {}
    /\ disc = EmptyMap
    /\ low = EmptyMap
    /\ parent = EmptyMap
    /\ articulation = {}
    /\ stack = <<>>
    /\ run = 1
    /\ prevResult = {}
    /\ prevFirst = {}
    /\ html = NoFile

Init ==
    /\ InitCommon
    /\ pc = "read_row"
    /\ adj = EmptyMap
    /\ adj0 = EmptyMap
    /\ parsed = FALSE
    /\ pending = {}

\* Variant: a row whose id does not parse is skipped and reading goes on.
ReadRow_SkipBad(f) ==
    /\ pc = "read_row"
    /\ Len(nodes) < MaxRows
    /\ lastIn' = f
    /\ lastKind' = "id"
    /\ LET r == PrimaryId(f) IN
       IF r.ok
       THEN /\ nodes' = Append(nodes, r.val)
            /\ adj' = SetDefault(adj, r.val)
            /\ curNode' = r.val
            /\ fieldIdx' = 1
            /\ pc' = "read_field"
            /\ UNCHANGED <<exc, badId>>
       ELSE /\ badId' = TRUE
            /\ UNCHANGED <<pc, exc, nodes, adj, curNode, fieldIdx>>
    /\ UNCHANGED <<parsed, refs, finderLocals, pending, run, prevResult, prevFirst, adj0, html>>

\* for row in reader: node_id = int(row['id']); nodes.append(...); adj.setdefault(node_id, set())
ReadRow(f) ==
    /\ pc = "read_row"
    /\ Len(nodes) < MaxRows
    /\ lastIn' = f
    /\ lastKind' = "id"
    /\ LET r == PrimaryId(f) IN
       IF r.ok
       THEN /\ nodes' = Append(nodes, r.val)
            /\ adj' = SetDefault(adj, r.val)
            /\ curNode' = r.val
            /\ fieldIdx' = 1
            /\ pc' = "read_field"
            /\ UNCHANGED <<exc, badId>>
       ELSE /\ pc' = "raised"
            /\ exc' = r.exc
            /\ badId' = TRUE
            /\ UNCHANGED <<nodes, adj, curNode, fieldIdx>>
    /\ UNCHANGED <<parsed, refs, finderLocals, pending, run, prevResult, prevFirst, adj0, html>>

\* one iteration of "for i in range(1, 6)"
ReadField(f) ==
    /\ pc = "read_field"
    /\ lastIn' = f
    /\ lastKind' = "conn"
    /\ LET r == IntOf(f)
           caught == (~FieldPresent(f)) \/ r.ok \/ r.exc = "ValueError"
           edge == FieldPresent(f) /\ r.ok /\ r.val # curNode
       IN /\ adj' = IF edge THEN Put(adj, curNode, adj[curNode] \cup {r.val}) ELSE adj
          /\ refs' = IF edge THEN refs \cup {<<curNode, r.val>>} ELSE refs
          /\ IF caught
             THEN /\ exc' = exc
                  /\ IF fieldIdx < NumConn
                     THEN fieldIdx' = fieldIdx + 1 /\ pc' = "read_field"
                     ELSE fieldIdx' = 0 /\ pc' = "read_row"
             ELSE /\ exc' = r.exc
                  /\ pc' = "raised"
                  /\ fieldIdx' = fieldIdx
    /\ UNCHANGED <<nodes, curNode, parsed, badId, finderLocals, pending, run,
                   prevResult, prevFirst, adj0, html>>

\* The reader is exhausted: symmetrize, return (nodes, adj) to main, which calls
\* find_articulation_points(adj).
EndOfFile ==
    /\ pc = "read_row"
    /\ adj' = Symmetrize(adj)
    /\ parsed' = TRUE
    /\ pc' = "find"
    /\ pending' = DOMAIN adj'
    /\ adj0' = adj'
    /\ lastKind' = "eof"
    /\ lastIn' = AbsentField
    /\ UNCHANGED <<exc, nodes, curNode, fieldIdx, refs, badId, finderLocals,
                   run, prevResult, prevFirst, html>>

\* ------------------------------------------------ find_articulation_points
\* Variant: adj.setdefault(u, set()), which inserts a missing key.
AdjGet_Inserting(a, u) ==
    [val |-> IF u \in DOMAIN a THEN a[u] ELSE {}, map |-> SetDefault(a, u)]

\* adj.get(u, []): the neighbours to iterate, and the map afterwards (get never inserts).
AdjGet(a, u) ==
    [val |-> IF u \in DOMAIN a THEN a[u] ELSE {}, map |-> a]

\* Variant: the counter is not advanced.
NextTime_Stuck(t) == t

\* time += 1
NextTime(t) == t + 1

\* parent.get(u) is None
IsRoot(par, u) == u \notin DOMAIN par

\* Variant: children > 0.
RootRule_AnyChild(par, u, children) == IsRoot(par, u) /\ children > 0

\* (1) parent.get(u) is None and children > 1
RootRule(par, u, children) == IsRoot(par, u) /\ children > 1

\* Variant: the test "parent.get(u) is not None" is missing.
NonRootRule_NoRootTest(par, u, lowv, discu) == lowv >= discu

\* (2) parent.get(u) is not None and low[v] >= disc[u]
NonRootRule(par, u, lowv, discu) == (~IsRoot(par, u)) /\ lowv >= discu

\* elif parent.get(u) != v
NotParentEdge(par, u, v) == ~(u \in DOMAIN par /\ par[u] = v)

Frame(u, rem) == [u |-> u, rem |-> rem, children |-> 0]
Top == stack[Len(stack)]
SetTop(st, fr) == [st EXCEPT ![Len(st)] = fr]

\* dfs(u) up to its loop: visited.add(u); disc[u] = time; low[u] = time; time += 1;
\* children = 0; the iterator over adj.get(u, []) is created.  "base" is the stack
\* of the caller.
DfsEnter(u, base) ==
    LET g == AdjGet(adj, u) IN
    /\ visited' = visited \cup {u}
    /\ disc' = Put(disc, u, time)
    /\ low' = Put(low, u, time)
    /\ time' = NextTime(time)
    /\ adj' = g.map
    /\ stack' = Append(base, Frame(u, g.val))

\* for u in adj: if u not in visited: dfs(u)
FinderNextRoot ==
    /\ pc = "find"
    /\ stack = <<>>
    /\ \E u \in pending :
         /\ pending' = pending \ {u}
         /\ IF u \notin visited
            THEN DfsEnter(u, stack) /\ UNCHANGED <<parent, articulation>>
            ELSE UNCHANGED <<adj, finderLocals>>
    /\ UNCHANGED <<pc, exc, parseVars, run, prevResult, prevFirst, adj0, html>>

\* v not in visited: parent[v] = u; children += 1; dfs(v)
DfsTreeEdge ==
    /\ pc = "find"
    /\ stack # <<>>
    /\ \E v \in Top.rem :
         /\ v \notin visited
         /\ parent' = Put(parent, v, Top.u)
         /\ DfsEnter(v, SetTop(stack, [Top EXCEPT !.rem = @ \ {v}, !.children = @ + 1]))
    /\ UNCHANGED <<pc, exc, parseVars, articulation, pending, run, prevResult, prevFirst, adj0, html>>

\* v in visited: a back edge unless v is the parent of u
DfsVisitedNeighbor ==
    /\ pc = "find"
    /\ stack # <<>>
    /\ \E v \in Top.rem :
         /\ v \in visited
         /\ stack' = SetTop(stack, [Top EXCEPT !.rem = @ \ {v}])
         /\ low' = IF NotParentEdge(parent, Top.u, v)
                   THEN Put(low, Top.u, Min(low[Top.u], disc[v]))
                   ELSE low
    /\ UNCHANGED <<pc, exc, parseVars, adj, time, visited, disc, parent, articulation,
                   pending, run, prevResult, prevFirst, adj0, html>>

\* dfs(v) returns.  In the caller u: low[u] = min(low[u], low[v]) and rules (1), (2).
DfsReturn ==
    /\ pc = "find"
    /\ stack # <<>>
    /\ Top.rem = {}
    /\ LET v == Top.u
           rest == SubSeq(stack, 1, Len(stack) - 1)
       IN /\ stack' = rest
          /\ IF rest = <<>>
             THEN UNCHANGED <<low, articulation>>
             ELSE LET fr == rest[Len(rest)]
                      u == fr.u
                  IN /\ low' = Put(low, u, Min(low[u], low[v]))
                     /\ articulation' =
                          IF RootRule(parent, u, fr.children)
                             \/ NonRootRule(parent, u, low[v], disc[u])
                          THEN articulation \cup {u}
                          ELSE articulation
    /\ UNCHANGED <<pc, exc, parseVars, adj, time, visited, disc, parent, pending, run,
                   prevResult, prevFirst, adj0, html>>

\* return articulation
FinderReturn ==
    /\ pc = "find"
    /\ stack = <<>>
    /\ pending = {}
    /\ pc' = "returned"
    /\ UNCHANGED <<exc, parseVars, adj, finderLocals, pending, run, prevResult, prevFirst, adj0, html>>

Finder == FinderNextRoot \/ DfsTreeEdge \/ DfsVisitedNeighbor \/ DfsReturn \/ FinderReturn

\* -------------------------------------------------------------- build_html
NodeIdSet == {nodes[i] : i \in 1..Len(nodes)}

\* each undirected edge once: key = frozenset((u, v))
EdgeSet(a) == UNION {{{u, v} : v \in a[u]} : u \in DOMAIN a}

\* vis_nodes with the CRITICAL label, and the de-duplicated edge list
BuildHtml ==
    /\ pc = "returned"
    /\ html' = [written |-> TRUE,
                critical |-> {n \in NodeIdSet : n \in articulation},
                shown |-> NodeIdSet,
                edges |-> EdgeSet(adj)]
    /\ pc' = "done"
    /\ UNCHANGED <<exc, parseVars, adj, finderLocals, pending, run, prevResult, prevFirst, adj0>>

\* -------------------------------------------------------------------- main
Next ==
    \/ \E f \in FieldValues : ReadRow(f)
    \/ \E f \in FieldValues : ReadField(f)
    \/ EndOfFile
    \/ Finder
    \/ BuildHtml

Spec == Init /\ [][Next]_vars

\* ------------------------------------------- the finder on its own, twice
NodeIds == 1..MaxNode

\* Every symmetric map without self-loops over a set of keys.
GraphOn(K, E) == [u \in K |-> {v \in K : {u, v} \in E}]
SymGraphs ==
    UNION { { GraphOn(K, E) : E \in SUBSET {e \in SUBSET K : Cardinality(e) = 2} }
            : K \in SUBSET NodeIds }

\* A symmetric map that lost the entry of one referenced key.
DropKey(g, d) == [u \in DOMAIN g \ {d} |-> g[u]]
\* A symmetric map that lost one direction of one edge.
DropDir(g, u, v) == [g EXCEPT ![u] = @ \ {v}]

AsymGraphs ==
    UNION { {DropKey(g, d) : d \in {k \in DOMAIN g : g[k] # {}}}
            \cup {DropDir(g, p[1], p[2]) : p \in {q \in (DOMAIN g) \X (DOMAIN g) : q[2] \in g[q[1]]}}
            : g \in SymGraphs }

FinderInputs == SymGraphs \cup AsymGraphs

FinderInit ==
    /\ InitCommon
    /\ pc = "find"
    /\ adj \in FinderInputs
    /\ adj0 = adj
    /\ parsed = FALSE
    /\ pending = DOMAIN adj

\* The caller calls find_articulation_points(adj) a second time.
Rerun ==
    /\ pc = "returned"
    /\ run = 1
    /\ run' = 2
    /\ prevResult' = articulation
    /\ prevFirst' = {u \in DOMAIN disc : disc[u] = 0}
    /\ time' = 0
    /\ visited' = {}
    /\ disc' = EmptyMap
    /\ low' = EmptyMap
    /\ parent' = EmptyMap
    /\ articulation' = {}
    /\ stack' = <<>>
    /\ pending' = DOMAIN adj
    /\ pc' = "find"
    /\ UNCHANGED <<exc, parseVars, adj, adj0, html>>

FinderNext == Finder \/ Rerun

FinderSpec == FinderInit /\ [][FinderNext]_vars

\* ============================================================== properties
Symmetric(a) == \A u \in DOMAIN a : \A v \in a[u] : v \in DOMAIN a /\ u \in a[v]
NoSelfLoops(a) == \A u \in DOMAIN a : u \notin a[u]

\* The keys of K reachable from the keys S inside K.
RECURSIVE Grow(_, _, _)
Grow(a, K, S) ==
    LET T == S \cup (K \cap UNION {a[x] : x \in S})
    IN IF T = S THEN S ELSE Grow(a, K, T)

\* Number of connected components of the graph induced on the keys K.
NumComponents(a, K) == Cardinality({Grow(a, K, {u}) : u \in K})

\* The keys whose deletion leaves strictly more connected components.
CutVertices(a) ==
    {u \in DOMAIN a : NumComponents(a, DOMAIN a \ {u}) > NumComponents(a, DOMAIN a)}

\* The field values int() accepts, and the rest.
NumericFields ==
    {Str(<<"1">>), Str(<<"2">>), Str(<<"3">>), Str(<<" ", "2">>), Str(<<"0", "1">>)}
UnusableFields == FieldValues \ NumericFields

C1_WitnessDisconnected ==
    /\ pc = "returned"
    /\ Symmetric(adj0)
    /\ NumComponents(adj0, DOMAIN adj0) >= 2
    /\ \E u \in DOMAIN adj0 : adj0[u] = {}

\* C2: the map parse_input returns is symmetric.
C2_AdjacencySymmetric == parsed => Symmetric(adj)

\* parse_input returned; some connection was listed from one side only, by a
\* record whose neighbour has no record of its own.
C2_Witness ==
    /\ parsed
    /\ \E p \in refs :
         /\ <<p[2], p[1]>> \notin refs
         /\ p[2] \notin NodeIdSet
         /\ p[1] \in adj[p[2]]

\* C3: the keys of the returned map are the record ids together with the ids
\* referenced by a parseable non-self neighbour field, and the entry of a
\* referenced id holds every record that referenced it.
C3_KeysAreAllReferenced ==
    parsed =>
        /\ DOMAIN adj = NodeIdSet \cup {p[2] : p \in refs}
        /\ \A p \in refs : p[1] \in adj[p[2]]

\* parse_input returned; an id without a record was referenced by two records.
C3_Witness ==
    /\ parsed
    /\ \E v \in DOMAIN adj \ NodeIdSet :
         Cardinality({p \in refs : p[2] = v}) >= 2

\* C4: every id of the critical set is the id of a record of the node list.
C4_CriticalAreRecords ==
    pc \in {"returned", "done"} => articulation \subseteq NodeIdSet

\* C5: once a row with an unparseable primary id has been read the run is over:
\* parse_input raised, nothing was returned, the finder never started and no
\* file is written.
C5_BadIdAborts ==
    badId =>
        /\ pc = "raised"
        /\ exc # ""
        /\ lastKind = "id" /\ lastIn \in UnusableFields
        /\ ~parsed
        /\ time = 0 /\ visited = {} /\ articulation = {}
        /\ ~html.written

\* A row with an unparseable id was read after a good record.
C5_Witness ==
    /\ badId
    /\ Len(nodes) >= 1
    /\ adj # EmptyMap

\* C6: a neighbour field that is absent, empty, blank or non-numeric changes
\* nothing but the position of the loop: the record stays in the node list, the
\* edges read so far stay, no exception leaves the loop; only a primary id raises.
C6_BadNeighbourDropped ==
    /\ [](pc = "raised" => lastKind = "id")
    /\ [](pc = "read_field" => (Len(nodes) >= 1 /\ nodes[Len(nodes)] = curNode))
    /\ [](\A p \in refs : p[1] \in DOMAIN adj /\ p[2] \in adj[p[1]])
    /\ [][(pc = "read_field" /\ lastKind' = "conn" /\ lastIn' \in UnusableFields)
            => /\ adj' = adj
               /\ nodes' = nodes
               /\ refs' = refs
               /\ exc' = ""
               /\ pc' \in {"read_field", "read_row"}]_vars

\* An unusable field was just read on a record that has an edge from another
\* field, and the loop goes on.
C6_Witness ==
    /\ lastKind = "conn"
    /\ lastIn \in UnusableFields
    /\ pc = "read_field"
    /\ curNode \in DOMAIN adj
    /\ adj[curNode] # {}

\* The same, for a record that is followed by another record.
C6_WitnessNextRecord ==
    /\ parsed
    /\ Len(nodes) >= 2
    /\ refs # {}

\* C7: two calls on the same symmetric map return the same set, whatever order
\* each call iterates the keys and the neighbour sets in.
C7_OrderIndependent ==
    (pc = "returned" /\ run = 2 /\ Symmetric(adj0) /\ NoSelfLoops(adj0))
        => articulation = prevResult

\* The second call started from another key than the first and found a cut vertex.
C7_Witness ==
    /\ pc = "returned"
    /\ run = 2
    /\ Symmetric(adj0)
    /\ articulation # {}
    /\ prevFirst # {}
    /\ \A u \in prevFirst : disc[u] # 0

\* C8: the finder never changes the map it was given, and every dictionary it
\* indexes has the key, also on an asymmetric map.
C8_AdjUnchanged ==
    /\ adj = adj0
    /\ exc = ""
    /\ \A v \in visited : v \in DOMAIN disc /\ v \in DOMAIN low
    /\ \A i \in 1..Len(stack) : stack[i].u \in DOMAIN low /\ stack[i].u \in DOMAIN disc

\* The finder returned after visiting a neighbour that has no key in the map.
C8_Witness ==
    /\ pc = "returned"
    /\ \E u \in DOMAIN adj0 : \E v \in adj0[u] : v \notin DOMAIN adj0 /\ v \in visited

\* C9: the number of dfs activations on the native call stack does not depend
\* on the graph (a traversal kept on an explicit stack needs one).
C9_NativeDepthConstant == Len(stack) <= 1

====
